---- MODULE Spec2Model ----
(***************************************************************************)
(* Chopsticks game canister (chessGame_backend/src/lib.rs).                *)
(*                                                                         *)
(* Three specifications share the operators that model the code:           *)
(*   Spec    - the canister: the stable map GAME_SERVICE and the four      *)
(*             exported calls plus init.  StableBTreeMap::get returns an   *)
(*             owned, deserialised ChopsticksGameService; the handlers     *)
(*             change that local value and never insert it back.           *)
(*   SpecMem - the ChopsticksGameService value a handler works on, from    *)
(*             the moment start_game has inserted a new Game into it       *)
(*             (line 156), under the bodies of join_game, make_move and    *)
(*             get_game_state (lines 170-176, 190-196, 208-214).  This is  *)
(*             the specification of the Game state machine.                *)
(*   SpecTwo - the same bodies, with start_game among them, on a value     *)
(*             that comes to hold several sessions, for MaxCalls calls.    *)
(***************************************************************************)
EXTENDS Integers, Sequences, FiniteSets, TLC

\* ---- bounds ----
MaxPrincipals == 2
MaxSessions == 2
MaxHandArg == 1
MaxCalls == 4

Principals == 1..MaxPrincipals
SessionIds == 1..MaxSessions
HandArgs == 0..MaxHandArg
Turns == {"Player1", "Player2"}

\* ---- program constants ----
Threshold == 5
StartHand == 1
U8Mod == 256

\* Option<T>: None is the empty sequence, Some(x) the one-element sequence.
None == <<>>
Some(x) == <<x>>
IsSome(o) == Len(o) = 1
Unwrap(o) == o[1]

\* GameState, with the payload of Finished as an Option.
WaitingForPlayer == [tag |-> "WaitingForPlayer", winner |-> None]
InProgress == [tag |-> "InProgress", winner |-> None]
Finished(w) == [tag |-> "Finished", winner |-> Some(w)]

\* Result<T, String> of the exported calls: Ok(()) , Ok(session_id), Ok(game), Err(msg)
OkUnit == [ok |-> TRUE, id |-> None, game |-> None, err |-> ""]
OkId(sid) == [ok |-> TRUE, id |-> Some(sid), game |-> None, err |-> ""]
OkGame(g) == [ok |-> TRUE, id |-> None, game |-> Some(g), err |-> ""]
Err(e) == [ok |-> FALSE, id |-> None, game |-> None, err |-> e]
NotFound == "Game not found"

NewPlayer(id, game) ==
    [id |-> id, game |-> game, left_hand |-> StartHand, right_hand |-> StartHand]

\* Game::new: caller() is c, Uuid::new_v4() is sid, rng.gen() is coin.
GameNew(c, sid, coin) ==
    [session_id |-> sid,
     player1 |-> NewPlayer(c, None),
     player2 |-> None,
     state |-> WaitingForPlayer,
     current_turn |-> IF coin THEN "Player1" ELSE "Player2"]

\* Game::join without its guard (mutant)
GameJoinOverwrite(g, player) ==
    [g EXCEPT !.player2 = Some(player), !.state = InProgress]

\* Game::join that seats the joiner and leaves state as it is (mutant)
GameJoinKeepState(g, player) ==
    IF g.state = WaitingForPlayer /\ g.player2 = None
    THEN [g EXCEPT !.player2 = Some(player)]
    ELSE g

\* Game::join that starts the Game and seats nobody (mutant)
GameJoinSeatsNobody(g, player) ==
    IF g.state = WaitingForPlayer /\ g.player2 = None
    THEN [g EXCEPT !.state = InProgress]
    ELSE g

\* Game::join that also hands the first turn to the creator (mutant)
GameJoinResetsTurn(g, player) ==
    IF g.state = WaitingForPlayer /\ g.player2 = None
    THEN [g EXCEPT !.player2 = Some(player), !.state = InProgress,
                   !.current_turn = "Player1"]
    ELSE g

\* Game::join that turns the creator away (mutant)
GameJoinNotCreator(g, player) ==
    IF g.state = WaitingForPlayer /\ g.player2 = None /\ player.id # g.player1.id
    THEN [g EXCEPT !.player2 = Some(player), !.state = InProgress]
    ELSE g

\* Game::join
GameJoin(g, player) ==
    IF g.state = WaitingForPlayer /\ g.player2 = None
    THEN [g EXCEPT !.player2 = Some(player), !.state = InProgress]
    ELSE g

\* the hand selected by a u8 argument: 0 is the left hand, anything else the right
HandOf(p, h) == IF h = 0 THEN p.left_hand ELSE p.right_hand

\* the reset written at 6 (mutant)
AddHandResetAtSix(v, a) ==
    LET s == (v + a) % U8Mod IN IF s >= Threshold + 1 THEN 0 ELSE s

\* the reset written with > (mutant)
AddHandResetAbove(v, a) ==
    LET s == (v + a) % U8Mod IN IF s > Threshold THEN 0 ELSE s

\* *opponent_hand += active_hand on u8 (hands stay below 5, the sum below 256),
\* then the reset at the threshold, lines 131-132
AddHand(v, a) ==
    LET s == (v + a) % U8Mod IN IF s >= Threshold THEN 0 ELSE s

\* the write through opponent_hand reaching both hands (mutant)
SetHandBoth(p, h, v) == [p EXCEPT !.left_hand = v, !.right_hand = v]

\* the write through opponent_hand, lines 130-132
SetHand(p, h, v) ==
    IF h = 0 THEN [p EXCEPT !.left_hand = v] ELSE [p EXCEPT !.right_hand = v]

\* the turn match giving back the same seat (mutant)
OtherTurnSame(t) == t

\* lines 139-142
OtherTurn(t) == IF t = "Player1" THEN "Player2" ELSE "Player1"

\* the match on current_turn: which seat acts for player_id, or "none"
ActiveSeat(g, player_id) ==
    IF g.current_turn = "Player1" /\ g.player1.id = player_id THEN "Player1"
    ELSE IF g.current_turn = "Player2" /\ IsSome(g.player2)
            /\ Unwrap(g.player2).id = player_id THEN "Player2"
    ELSE "none"

\* lines 129-144 with the turn switched on a winning move too (mutant)
ApplyMoveWinFlipsTurn(g, seat, player_id, hand, target_hand) ==
    LET active == IF seat = "Player1" THEN g.player1 ELSE Unwrap(g.player2)
        opponent == IF seat = "Player1" THEN g.player2 ELSE Some(g.player1)
        active_hand == HandOf(active, hand)
    IN  IF active_hand = 0 THEN g
        ELSE IF opponent = None THEN g
        ELSE LET opp == Unwrap(opponent)
                 opp2 == SetHand(opp, target_hand,
                                 AddHand(HandOf(opp, target_hand), active_hand))
                 g2 == IF seat = "Player1"
                       THEN [g EXCEPT !.player2 = Some(opp2)]
                       ELSE [g EXCEPT !.player1 = opp2]
                 g3 == [g2 EXCEPT !.current_turn = OtherTurn(g.current_turn)]
             IN  IF opp2.left_hand = 0 /\ opp2.right_hand = 0
                 THEN [g3 EXCEPT !.state = Finished(player_id)]
                 ELSE g3

\* lines 129-144 without the end of the game: the turn always passes (mutant)
ApplyMoveNeverEnds(g, seat, player_id, hand, target_hand) ==
    LET active == IF seat = "Player1" THEN g.player1 ELSE Unwrap(g.player2)
        opponent == IF seat = "Player1" THEN g.player2 ELSE Some(g.player1)
        active_hand == HandOf(active, hand)
    IN  IF active_hand = 0 THEN g
        ELSE IF opponent = None THEN g
        ELSE LET opp == Unwrap(opponent)
                 opp2 == SetHand(opp, target_hand,
                                 AddHand(HandOf(opp, target_hand), active_hand))
                 g2 == IF seat = "Player1"
                       THEN [g EXCEPT !.player2 = Some(opp2)]
                       ELSE [g EXCEPT !.player1 = opp2]
             IN  [g2 EXCEPT !.current_turn = OtherTurn(g.current_turn)]

\* lines 129-144 for the seat that acts
ApplyMove(g, seat, player_id, hand, target_hand) ==
    LET active == IF seat = "Player1" THEN g.player1 ELSE Unwrap(g.player2)
        opponent == IF seat = "Player1" THEN g.player2 ELSE Some(g.player1)
        active_hand == HandOf(active, hand)
    IN  IF active_hand = 0 THEN g
        ELSE IF opponent = None THEN g
        ELSE LET opp == Unwrap(opponent)
                 opp2 == SetHand(opp, target_hand,
                                 AddHand(HandOf(opp, target_hand), active_hand))
                 g2 == IF seat = "Player1"
                       THEN [g EXCEPT !.player2 = Some(opp2)]
                       ELSE [g EXCEPT !.player1 = opp2]
             IN  IF opp2.left_hand = 0 /\ opp2.right_hand = 0
                 THEN [g2 EXCEPT !.state = Finished(player_id)]
                 ELSE [g2 EXCEPT !.current_turn = OtherTurn(g.current_turn)]

\* Game::make_move without the check of state at line 114 (mutant)
GameMakeMoveAnyState(g, player_id, hand, target_hand) ==
    LET seat == ActiveSeat(g, player_id)
    IN  IF seat = "none" THEN g
        ELSE ApplyMove(g, seat, player_id, hand, target_hand)

\* Game::make_move
GameMakeMove(g, player_id, hand, target_hand) ==
    IF g.state # InProgress THEN g
    ELSE LET seat == ActiveSeat(g, player_id)
         IN  IF seat = "none" THEN g
             ELSE ApplyMove(g, seat, player_id, hand, target_hand)

\* ---- ChopsticksGameService and the handler bodies ----

\* ChopsticksGameService { games: HashMap::new() }
EmptyService == [games |-> [s \in {} |-> 0]]

\* a map holding the new entry alone (mutant)
MapInsertAlone(m, k, v) == [s \in {k} |-> v]

\* HashMap::insert
MapInsert(m, k, v) == [s \in (DOMAIN m) \cup {k} |-> IF s = k THEN v ELSE m[s]]

\* The handlers below take `fetched`, the Option<ChopsticksGameService> that
\* StableBTreeMap::get returned (an owned value), and give the handler's
\* result `ret` and `local`, the value of that local when the handler ends.

\* start_game, lines 150-162
StartGameBody(fetched, game) ==
    [ret |-> OkId(game.session_id),
     local |-> IF IsSome(fetched)
               THEN Some([Unwrap(fetched) EXCEPT
                            !.games = MapInsert(@, game.session_id, game)])
               ELSE None]

\* join_game, lines 167-181
JoinGameBody(fetched, c, session_id) ==
    IF IsSome(fetched)
    THEN LET gs == Unwrap(fetched)
         IN  IF session_id \in DOMAIN gs.games
             THEN [ret |-> OkUnit,
                   local |-> Some([gs EXCEPT !.games[session_id] =
                                GameJoin(@, NewPlayer(c, Some(session_id)))])]
             ELSE [ret |-> Err(NotFound), local |-> fetched]
    ELSE [ret |-> OkUnit, local |-> fetched]

\* make_move, lines 186-201
MakeMoveBody(fetched, c, session_id, hand, target_hand) ==
    IF IsSome(fetched)
    THEN LET gs == Unwrap(fetched)
         IN  IF session_id \in DOMAIN gs.games
             THEN [ret |-> OkUnit,
                   local |-> Some([gs EXCEPT !.games[session_id] =
                                GameMakeMove(@, c, hand, target_hand)])]
             ELSE [ret |-> Err(NotFound), local |-> fetched]
    ELSE [ret |-> OkUnit, local |-> fetched]

\* get_game_state, lines 205-218
GetGameStateBody(fetched, session_id) ==
    IF IsSome(fetched)
    THEN LET gs == Unwrap(fetched)
         IN  IF session_id \in DOMAIN gs.games
             THEN [ret |-> OkGame(gs.games[session_id]), local |-> fetched]
             ELSE [ret |-> Err(NotFound), local |-> fetched]
    ELSE [ret |-> Err(NotFound), local |-> fetched]

\* ---- state ----
VARIABLES
    service,    \* GAME_SERVICE.get("chopsticks_game_service"): Option<ChopsticksGameService>
    next_uuid,  \* how many session ids Uuid::new_v4 has produced
    started,    \* the start_game calls answered Ok while the service record existed
    request,    \* Spec: the call being answered: caller() and the candid arguments
    mem,        \* SpecMem: the ChopsticksGameService value the handler bodies work on
    calls,      \* SpecTwo: how many calls have been answered
    local,      \* Spec: the handler's local game_service when it returned (then dropped)
    last        \* the last call: its name, its result and the value it fetched

vars == <<service, next_uuid, started, request, mem, calls, local, last>>

Request(c, sid, hand, target_hand) ==
    [caller |-> c, session_id |-> sid, hand |-> hand, target_hand |-> target_hand]

\* no call yet (and, under SpecMem, calls are not recorded)
NoRequest == Request(0, 0, 0, 0)

\* what a call leaves to observe: its result and the value it fetched
Call(op, fetched, r) ==
    [op |-> op, ret |-> r.ret, pre |-> fetched]

\* ---- Spec: the canister ----

\* thread_local! construction: an empty StableBTreeMap, no call made yet
Init ==
    /\ service = None
    /\ next_uuid = 0
    /\ started = {}
    /\ request = NoRequest
    /\ mem = None
    /\ calls = 0
    /\ local = None
    /\ last = Call("none", None, [ret |-> OkUnit, local |-> None])

\* #[init]: runs once, at install; nothing ever removes the record
init ==
    /\ service = None
    /\ service' = Some(EmptyService)
    /\ last' = Call("init", service,
                    [ret |-> OkUnit, local |-> Some(EmptyService)])
    /\ local' = Some(EmptyService)
    /\ request' = NoRequest
    /\ UNCHANGED <<next_uuid, started, mem, calls>>

\* start_game: the Game is inserted into the fetched copy only
start_game(c, coin) ==
    /\ next_uuid < MaxSessions
    /\ LET sid == next_uuid + 1
           r == StartGameBody(service, GameNew(c, sid, coin))
       IN  /\ next_uuid' = sid
           /\ last' = Call("start_game", service, r)
           /\ local' = r.local
           /\ request' = Request(c, 0, 0, 0)
           /\ started' = IF IsSome(service) /\ r.ret.ok
                         THEN started \cup {[id |-> sid, caller |-> c]}
                         ELSE started
    /\ UNCHANGED <<service, mem, calls>>

join_game(c, session_id) ==
    /\ LET r == JoinGameBody(service, c, session_id)
       IN  last' = Call("join_game", service, r) /\ local' = r.local
    /\ request' = Request(c, session_id, 0, 0)
    /\ UNCHANGED <<service, next_uuid, started, mem, calls>>

make_move(c, session_id, hand, target_hand) ==
    /\ LET r == MakeMoveBody(service, c, session_id, hand, target_hand)
       IN  last' = Call("make_move", service, r) /\ local' = r.local
    /\ request' = Request(c, session_id, hand, target_hand)
    /\ UNCHANGED <<service, next_uuid, started, mem, calls>>

get_game_state(session_id) ==
    /\ LET r == GetGameStateBody(service, session_id)
       IN  last' = Call("get_game_state", service, r) /\ local' = r.local
    /\ request' = Request(0, session_id, 0, 0)
    /\ UNCHANGED <<service, next_uuid, started, mem, calls>>

Next ==
    \/ init
    \/ \E c \in Principals, coin \in BOOLEAN : start_game(c, coin)
    \/ \E c \in Principals, sid \in SessionIds : join_game(c, sid)
    \/ \E c \in Principals, sid \in SessionIds, h \in HandArgs, t \in HandArgs :
          make_move(c, sid, h, t)
    \/ \E sid \in SessionIds : get_game_state(sid)

Spec == Init /\ [][Next]_vars

\* ---- SpecMem: the handler bodies on one ChopsticksGameService value ----

\* the local of start_game after line 156, the first session id just generated
MemInit ==
    /\ service = None
    /\ next_uuid = 0
    /\ started = {}
    /\ request = NoRequest
    /\ calls = 0
    /\ local = None
    /\ \E c \in Principals, coin \in BOOLEAN :
          LET r == StartGameBody(Some(EmptyService), GameNew(c, 1, coin))
          IN  /\ mem = r.local
              /\ last = Call("start_game", Some(EmptyService), r)

MemJoin(c, session_id) ==
    /\ LET r == JoinGameBody(mem, c, session_id)
       IN  /\ mem' = r.local
           /\ last' = Call("join_game", mem, r)
    /\ UNCHANGED <<service, next_uuid, started, request, calls, local>>

MemMove(c, session_id, hand, target_hand) ==
    /\ LET r == MakeMoveBody(mem, c, session_id, hand, target_hand)
       IN  /\ mem' = r.local
           /\ last' = Call("make_move", mem, r)
    /\ UNCHANGED <<service, next_uuid, started, request, calls, local>>

MemGet(session_id) ==
    /\ LET r == GetGameStateBody(mem, session_id)
       IN  /\ mem' = r.local
           /\ last' = Call("get_game_state", mem, r)
    /\ UNCHANGED <<service, next_uuid, started, request, calls, local>>

MemNext ==
    \/ \E c \in Principals, sid \in SessionIds : MemJoin(c, sid)
    \/ \E c \in Principals, sid \in SessionIds, h \in HandArgs, t \in HandArgs :
          MemMove(c, sid, h, t)
    \/ \E sid \in SessionIds : MemGet(sid)

SpecMem == MemInit /\ [][MemNext]_vars

\* ---- SpecTwo: the handler bodies on a ChopsticksGameService value that ----
\* ---- start_game fills with several sessions, for a few calls          ----

\* init_state of init: the value with no Game yet
TwoInit ==
    /\ service = None
    /\ next_uuid = 0
    /\ started = {}
    /\ request = NoRequest
    /\ calls = 0
    /\ local = None
    /\ mem = Some(EmptyService)
    /\ last = Call("none", None, [ret |-> OkUnit, local |-> None])

TwoStart(c, coin) ==
    /\ calls < MaxCalls
    /\ next_uuid < MaxSessions
    /\ LET r == StartGameBody(mem, GameNew(c, next_uuid + 1, coin))
       IN  /\ mem' = r.local
           /\ last' = Call("start_game", mem, r)
    /\ next_uuid' = next_uuid + 1
    /\ calls' = calls + 1
    /\ UNCHANGED <<service, started, request, local>>

TwoJoin(c, session_id) ==
    /\ calls < MaxCalls
    /\ LET r == JoinGameBody(mem, c, session_id)
       IN  /\ mem' = r.local
           /\ last' = Call("join_game", mem, r)
    /\ calls' = calls + 1
    /\ UNCHANGED <<service, next_uuid, started, request, local>>

TwoMove(c, session_id, hand, target_hand) ==
    /\ calls < MaxCalls
    /\ LET r == MakeMoveBody(mem, c, session_id, hand, target_hand)
       IN  /\ mem' = r.local
           /\ last' = Call("make_move", mem, r)
    /\ calls' = calls + 1
    /\ UNCHANGED <<service, next_uuid, started, request, local>>

TwoGet(session_id) ==
    /\ calls < MaxCalls
    /\ LET r == GetGameStateBody(mem, session_id)
       IN  /\ mem' = r.local
           /\ last' = Call("get_game_state", mem, r)
    /\ calls' = calls + 1
    /\ UNCHANGED <<service, next_uuid, started, request, local>>

TwoNext ==
    \/ \E c \in Principals, coin \in BOOLEAN : TwoStart(c, coin)
    \/ \E c \in Principals, sid \in SessionIds : TwoJoin(c, sid)
    \/ \E c \in Principals, sid \in SessionIds, h \in HandArgs, t \in HandArgs :
          TwoMove(c, sid, h, t)
    \/ \E sid \in SessionIds : TwoGet(sid)

SpecTwo == TwoInit /\ [][TwoNext]_vars

\* ======================= claims =======================

\* the session ids a ChopsticksGameService value (or its absence) holds
Stored(svc) == IF IsSome(svc) THEN DOMAIN Unwrap(svc).games ELSE {}
GameAt(svc, sid) == Unwrap(svc).games[sid]
StartedIds == {s.id : s \in started}

\* C1 (as claimed): after start_game returned Ok(id) on an initialised service,
\* get_game_state(id) never answers "Game not found", and right after the call
\* it returns the new Game: session_id = id, player1 = the caller with both hands
\* at 1, no player2, state WaitingForPlayer.
C1_StartedGameIsStored ==
    /\ \A s \in started : GetGameStateBody(service, s.id).ret.ok
    /\ (last.op = "start_game" /\ IsSome(last.pre) /\ last.ret.ok) =>
          LET r == GetGameStateBody(service, Unwrap(last.ret.id)).ret
          IN  /\ r.ok
              /\ IsSome(r.game)
              /\ Unwrap(r.game).session_id = Unwrap(last.ret.id)
              /\ Unwrap(r.game).player1.id = request.caller
              /\ Unwrap(r.game).player1.left_hand = 1
              /\ Unwrap(r.game).player1.right_hand = 1
              /\ Unwrap(r.game).player2 = None
              /\ Unwrap(r.game).state = WaitingForPlayer

\* C2 (as claimed): a session start_game answered Ok for is in the store, so a
\* join_game on it finds it; once such a join_game has returned (the first one
\* is legal), get_game_state on that id returns the Game with the join applied:
\* player2 present and the state no longer WaitingForPlayer.  Likewise a
\* make_move answered Ok on such an id leaves a Game to read.
C2_MutationIsPersisted ==
    /\ (last.op = "join_game" /\ request.session_id \in StartedIds) =>
          LET r == GetGameStateBody(service, request.session_id).ret
          IN  /\ last.ret.ok
              /\ r.ok
              /\ IsSome(r.game)
              /\ IsSome(Unwrap(r.game).player2)
              /\ Unwrap(r.game).state # WaitingForPlayer
    /\ (last.op = "make_move" /\ request.session_id \in StartedIds) =>
          /\ last.ret.ok
          /\ GetGameStateBody(service, request.session_id).ret.ok

\* C3 (as claimed): join_game and make_move with a session id that is not in the
\* store return an error, never Ok(()), also while the service record is absent.
C3_UnknownSessionIsAnError ==
    (/\ last.op \in {"join_game", "make_move"}
     /\ request.session_id \notin Stored(last.pre)) => ~last.ret.ok

\* ---- what the claims about one Game read, written out from the fields ----

SeatPlayer(g, seat) == IF seat = "Player1" THEN Some(g.player1) ELSE g.player2
Hand(p, h) == IF h = 0 THEN p.left_hand ELSE p.right_hand
TurnPlayer(g) == SeatPlayer(g, g.current_turn)
TurnOpponent(g) == SeatPlayer(g, IF g.current_turn = "Player1" THEN "Player2" ELSE "Player1")

\* c is the identity of the seat current_turn names
IsTurnOf(g, c) == IsSome(TurnPlayer(g)) /\ Unwrap(TurnPlayer(g)).id = c

NotJoinable(g) == g.state.tag # "WaitingForPlayer" \/ IsSome(g.player2)

\* a legal move: the session exists, is InProgress, c is the active seat's
\* identity and the source hand is not 0
LegalMove(m, c, sid, h) ==
    /\ sid \in Stored(m)
    /\ GameAt(m, sid).state.tag = "InProgress"
    /\ IsTurnOf(GameAt(m, sid), c)
    /\ Hand(Unwrap(TurnPlayer(GameAt(m, sid))), h) # 0

\* Under SpecMem the last call can have been join_game(sid) by c /
\* make_move(sid, h, t) by c: it is that call by name, and its result and the
\* value it left are what those arguments give.
WasJoin(c, sid) ==
    /\ last.op = "join_game"
    /\ LET r == JoinGameBody(last.pre, c, sid)
       IN  last.ret = r.ret /\ mem = r.local

WasMove(c, sid, h, t) ==
    /\ last.op = "make_move"
    /\ LET r == MakeMoveBody(last.pre, c, sid, h, t)
       IN  last.ret = r.ret /\ mem = r.local

\* C4 (as claimed): join_game on an existing session that is InProgress or
\* Finished, or that already has a player2, returns an error, never Ok(()).
C4_JoinNotJoinableIsAnError ==
    \A c \in Principals, sid \in SessionIds :
       (/\ sid \in Stored(last.pre)
        /\ NotJoinable(GameAt(last.pre, sid))
        /\ WasJoin(c, sid)) => ~last.ret.ok

\* C5 (as claimed): make_move on an existing session that is not InProgress
\* returns an error for every caller and every hand and target_hand.
C5_MoveNotInProgressIsAnError ==
    \A c \in Principals, sid \in SessionIds, h \in HandArgs, t \in HandArgs :
       (/\ sid \in Stored(last.pre)
        /\ GameAt(last.pre, sid).state.tag # "InProgress"
        /\ WasMove(c, sid, h, t)) => ~last.ret.ok

\* C6 (as claimed): make_move on an InProgress session by a caller that is not
\* the identity of the seat current_turn names returns an error.
C6_MoveOutOfTurnIsAnError ==
    \A c \in Principals, sid \in SessionIds, h \in HandArgs, t \in HandArgs :
       (/\ sid \in Stored(last.pre)
        /\ GameAt(last.pre, sid).state.tag = "InProgress"
        /\ ~IsTurnOf(GameAt(last.pre, sid), c)
        /\ WasMove(c, sid, h, t)) => ~last.ret.ok

\* C7 (as claimed): make_move on an InProgress session by the player whose turn
\* it is, from a hand that holds 0, returns an error.
C7_MoveFromEmptyHandIsAnError ==
    \A c \in Principals, sid \in SessionIds, h \in HandArgs, t \in HandArgs :
       (/\ sid \in Stored(last.pre)
        /\ GameAt(last.pre, sid).state.tag = "InProgress"
        /\ IsTurnOf(GameAt(last.pre, sid), c)
        /\ Hand(Unwrap(TurnPlayer(GameAt(last.pre, sid))), h) = 0
        /\ WasMove(c, sid, h, t)) => ~last.ret.ok

\* C8: a rejected call changes nothing: a join on an unknown or not joinable
\* session and a move that is not legal (unknown session, not InProgress, not
\* the active seat's identity, source hand 0) leave every stored Game and the
\* set of stored session ids as they were.  (A state whose value is as before
\* the call satisfies this for every argument; the rest are gone through.)
C8_RejectedCallIsNoOp ==
    \/ mem = last.pre
    \/ /\ \A c \in Principals, sid \in SessionIds :
             (/\ sid \notin Stored(last.pre) \/ NotJoinable(GameAt(last.pre, sid))
              /\ WasJoin(c, sid)) => mem = last.pre
       /\ \A c \in Principals, sid \in SessionIds, h \in HandArgs, t \in HandArgs :
             (/\ ~LegalMove(last.pre, c, sid, h)
              /\ WasMove(c, sid, h, t)) => mem = last.pre

\* C8 witness: a make_move by an identity that is not the active seat's was
\* answered on an InProgress Game, which is as it was before the call.
C8_Witness ==
    /\ 1 \in Stored(last.pre)
    /\ GameAt(last.pre, 1).state.tag = "InProgress"
    /\ \E c \in Principals, h \in HandArgs, t \in HandArgs :
          ~IsTurnOf(GameAt(last.pre, 1), c) /\ WasMove(c, 1, h, t)
    /\ mem = last.pre

\* C9: a legal move after which the opponent still has a non-zero hand hands the
\* turn to the other seat and leaves the state InProgress.
C9_TurnAlternates ==
    last.op = "make_move" =>
    \A c \in Principals, sid \in SessionIds, h \in HandArgs, t \in HandArgs :
       (/\ LegalMove(last.pre, c, sid, h)
        /\ WasMove(c, sid, h, t)
        /\ LET opp == Unwrap(SeatPlayer(GameAt(mem, sid),
                              IF GameAt(last.pre, sid).current_turn = "Player1"
                              THEN "Player2" ELSE "Player1"))
           IN  opp.left_hand # 0 \/ opp.right_hand # 0)
       => /\ GameAt(mem, sid).current_turn # GameAt(last.pre, sid).current_turn
          /\ GameAt(mem, sid).current_turn \in Turns
          /\ GameAt(mem, sid).state.tag = "InProgress"

\* C9 witness: a legal make_move was answered and the Game is still InProgress.
C9_Witness ==
    /\ \E c \in Principals, h \in HandArgs, t \in HandArgs :
          LegalMove(last.pre, c, 1, h) /\ WasMove(c, 1, h, t)
    /\ GameAt(mem, 1).state.tag = "InProgress"

\* C10: for a legal move with v the opponent's targeted hand before and a the
\* mover's source hand, the targeted hand afterwards is 0 if v + a >= 5 and
\* v + a otherwise.
C10_ThresholdWrap ==
    last.op = "make_move" =>
    \A c \in Principals, sid \in SessionIds, h \in HandArgs, t \in HandArgs :
       (/\ LegalMove(last.pre, c, sid, h)
        /\ WasMove(c, sid, h, t))
       => LET g == GameAt(last.pre, sid)
              a == Hand(Unwrap(TurnPlayer(g)), h)
              v == Hand(Unwrap(TurnOpponent(g)), t)
              seat == IF g.current_turn = "Player1" THEN "Player2" ELSE "Player1"
              w == Hand(Unwrap(SeatPlayer(GameAt(mem, sid), seat)), t)
          IN  w = IF v + a >= 5 THEN 0 ELSE v + a

\* C10 witness: a legal make_move was answered whose source hand a and targeted
\* hand v had v + a >= 5.
C10_Witness ==
    \E c \in Principals, h \in HandArgs, t \in HandArgs :
       /\ LegalMove(last.pre, c, 1, h)
       /\ WasMove(c, 1, h, t)
       /\ Hand(Unwrap(TurnPlayer(GameAt(last.pre, 1))), h)
            + Hand(Unwrap(TurnOpponent(GameAt(last.pre, 1))), t) >= 5

\* ---- C11 .. C20: the Game state machine, under SpecMem ----

\* both hands of an Option<Player> that is present are 0
BothEmpty(p) == Unwrap(p).left_hand = 0 /\ Unwrap(p).right_hand = 0

\* the seat that is not seat
OtherSeat(seat) == IF seat = "Player1" THEN "Player2" ELSE "Player1"

\* C11: a Game becomes Finished in a call exactly when the call is a legal move
\* that leaves both hands of the opponent at 0; winner is then the mover and
\* current_turn is as before.  So in a Finished Game the seat current_turn does
\* not name (the one that did not move last) has both hands at 0.
C11_FinishedIffOpponentEmpty ==
    /\ \A sid \in Stored(last.pre) \cap Stored(mem) :
          (/\ GameAt(last.pre, sid).state.tag # "Finished"
           /\ GameAt(mem, sid).state.tag = "Finished")
          => /\ last.op = "make_move"
             /\ \E c \in Principals, h \in HandArgs, t \in HandArgs :
                   /\ LegalMove(last.pre, c, sid, h)
                   /\ WasMove(c, sid, h, t)
                   /\ GameAt(mem, sid).state.winner = Some(c)
             /\ GameAt(mem, sid).current_turn = GameAt(last.pre, sid).current_turn
             /\ BothEmpty(TurnOpponent(GameAt(mem, sid)))
    /\ (last.op = "make_move" /\ mem # last.pre) =>
          \A c \in Principals, sid \in SessionIds, h \in HandArgs, t \in HandArgs :
             (/\ LegalMove(last.pre, c, sid, h)
              /\ WasMove(c, sid, h, t)
              /\ BothEmpty(SeatPlayer(GameAt(mem, sid),
                              OtherSeat(GameAt(last.pre, sid).current_turn))))
             => /\ GameAt(mem, sid).state.tag = "Finished"
                /\ GameAt(mem, sid).state.winner = Some(c)
    /\ \A sid \in Stored(mem) :
          GameAt(mem, sid).state.tag = "Finished"
          => /\ IsSome(TurnOpponent(GameAt(mem, sid)))
             /\ BothEmpty(TurnOpponent(GameAt(mem, sid)))

\* C11 witness: a make_move took an InProgress Game to Finished.
C11_Witness ==
    /\ last.op = "make_move"
    /\ 1 \in Stored(last.pre)
    /\ GameAt(last.pre, 1).state.tag = "InProgress"
    /\ GameAt(mem, 1).state.tag = "Finished"

\* WaitingForPlayer, InProgress, Finished in their order
PhaseRank(st) ==
    IF st.tag = "WaitingForPlayer" THEN 0 ELSE IF st.tag = "InProgress" THEN 1 ELSE 2

\* C12: over every call a session's state stays or moves one phase forward
\* (WaitingForPlayer -> InProgress -> Finished, never WaitingForPlayer ->
\* Finished, never back), and a Finished Game is left exactly as it was.
C12_PhaseOnlyForward ==
    /\ Stored(last.pre) \subseteq Stored(mem)
    /\ \A sid \in Stored(last.pre) :
          LET g == GameAt(last.pre, sid)
              g2 == GameAt(mem, sid)
          IN  /\ PhaseRank(g2.state) >= PhaseRank(g.state)
              /\ PhaseRank(g2.state) <= PhaseRank(g.state) + 1
              /\ g.state.tag = "Finished" => g2 = g

\* C12 witness: a join_game or make_move was answered on a Finished Game.
C12_Witness ==
    /\ last.op \in {"join_game", "make_move"}
    /\ 1 \in Stored(last.pre)
    /\ GameAt(last.pre, 1).state.tag = "Finished"
    /\ \/ \E c \in Principals : WasJoin(c, 1)
       \/ \E c \in Principals, h \in HandArgs, t \in HandArgs :
             /\ IsTurnOf(GameAt(last.pre, 1), c)
             /\ Hand(Unwrap(TurnPlayer(GameAt(last.pre, 1))), h) # 0
             /\ WasMove(c, 1, h, t)

\* C13: in every Game player2 is absent exactly when state is WaitingForPlayer.
C13_Player2IffStarted ==
    \A sid \in Stored(mem) :
       (GameAt(mem, sid).player2 = None)
          <=> (GameAt(mem, sid).state.tag = "WaitingForPlayer")

\* C13 witness: a join_game seated player2 in a Game that had none.
C13_Witness ==
    /\ last.op = "join_game"
    /\ 1 \in Stored(last.pre)
    /\ GameAt(last.pre, 1).player2 = None
    /\ IsSome(GameAt(mem, 1).player2)
    /\ GameAt(mem, 1).state.tag = "InProgress"

\* C14 (as claimed): in every Game, from creation onward, current_turn names a
\* player that exists: when it is Player2, player2 is present.
C14_TurnNamesPlayerAlways ==
    \A sid \in Stored(mem) :
       GameAt(mem, sid).current_turn = "Player2" => IsSome(GameAt(mem, sid).player2)

\* C14 (amended): in every Game that is no longer WaitingForPlayer, current_turn
\* names a player that exists.
C14_TurnNamesPlayerOnceJoined ==
    \A sid \in Stored(mem) :
       GameAt(mem, sid).state.tag # "WaitingForPlayer"
          => IsSome(TurnPlayer(GameAt(mem, sid)))

\* C14 witness: a Game created with current_turn Player2 was joined, and the
\* turn is that of the player2 now present.
C14_Witness ==
    /\ last.op = "join_game"
    /\ 1 \in Stored(last.pre)
    /\ GameAt(last.pre, 1).player2 = None
    /\ GameAt(last.pre, 1).current_turn = "Player2"
    /\ GameAt(mem, 1).state.tag = "InProgress"
    /\ GameAt(mem, 1).current_turn = "Player2"
    /\ IsSome(GameAt(mem, 1).player2)

\* C15: a join on a WaitingForPlayer Game without player2 seats the joiner with
\* both hands at 1 and makes the state InProgress, leaving player1, session_id
\* and current_turn; only the first join of a session takes effect: no call
\* changes a player2 that is present into another identity.
C15_FirstJoinOnly ==
    /\ last.op = "join_game" =>
          \A c \in Principals, sid \in Stored(last.pre) :
             WasJoin(c, sid) =>
                LET g == GameAt(last.pre, sid)
                    g2 == GameAt(mem, sid)
                IN  IF g.state.tag = "WaitingForPlayer" /\ g.player2 = None
                    THEN /\ IsSome(g2.player2)
                         /\ Unwrap(g2.player2).id = c
                         /\ Unwrap(g2.player2).left_hand = 1
                         /\ Unwrap(g2.player2).right_hand = 1
                         /\ g2.state.tag = "InProgress"
                         /\ g2.player1 = g.player1
                         /\ g2.session_id = g.session_id
                         /\ g2.current_turn = g.current_turn
                    ELSE g2 = g
    /\ \A sid \in Stored(last.pre) :
          IsSome(GameAt(last.pre, sid).player2)
          => /\ IsSome(GameAt(mem, sid).player2)
             /\ Unwrap(GameAt(mem, sid).player2).id
                   = Unwrap(GameAt(last.pre, sid).player2).id

\* C15 witness: a join_game by an identity other than player2's was answered on
\* a Game that already had its player2.
C15_Witness ==
    /\ last.op = "join_game"
    /\ 1 \in Stored(last.pre)
    /\ IsSome(GameAt(last.pre, 1).player2)
    /\ \E c \in Principals :
          c # Unwrap(GameAt(last.pre, 1).player2).id /\ WasJoin(c, 1)

\* the service value that holds the session sid of svc and nothing else
Alone(svc, sid) == Some([games |-> [s \in {sid} |-> GameAt(svc, sid)]])

\* the sessions whose Game the last call changed, added or dropped
Touched ==
    {sid \in Stored(last.pre) \cup Stored(mem) :
        \/ sid \notin Stored(last.pre)
        \/ sid \notin Stored(mem)
        \/ GameAt(mem, sid) # GameAt(last.pre, sid)}

\* C16 (under SpecTwo): a join_game or make_move addressed to one session id
\* leaves the Game under every other id, and the set of ids, as they were, and
\* gives the addressed session the Game it would get were it stored alone;
\* start_game adds one session and leaves every stored Game as it was.
C16_OtherSessionsUntouched ==
    /\ last.op = "join_game" =>
          \A c \in Principals, sid \in SessionIds :
             WasJoin(c, sid) =>
                /\ Touched \subseteq {sid}
                /\ sid \in Stored(last.pre) =>
                      GameAt(mem, sid) =
                         GameAt(JoinGameBody(Alone(last.pre, sid), c, sid).local, sid)
    /\ last.op = "make_move" =>
          \A c \in Principals, sid \in SessionIds, h \in HandArgs, t \in HandArgs :
             WasMove(c, sid, h, t) =>
                /\ Touched \subseteq {sid}
                /\ sid \in Stored(last.pre) =>
                      GameAt(mem, sid) =
                         GameAt(MakeMoveBody(Alone(last.pre, sid), c, sid, h, t).local, sid)
    /\ last.op = "start_game" =>
          /\ Stored(last.pre) \subseteq Stored(mem)
          /\ Cardinality(Stored(mem)) = Cardinality(Stored(last.pre)) + 1
          /\ Touched = Stored(mem) \ Stored(last.pre)
    /\ last.op = "get_game_state" => Touched = {}

\* C16 witness: with two sessions stored, a join_game or make_move changed one
\* of them.
C16_Witness ==
    /\ last.op \in {"join_game", "make_move"}
    /\ Cardinality(Stored(last.pre)) >= 2
    /\ Cardinality(Touched) = 1

\* the players a Game holds
PlayersOf(g) == {g.player1} \cup (IF IsSome(g.player2) THEN {Unwrap(g.player2)} ELSE {})

\* C17: every hand of every player of every Game is in 0..4, so the sum formed
\* at line 131 is at most 8 and stays inside u8.
C17_HandsBelowThreshold ==
    /\ \A sid \in Stored(mem) : \A p \in PlayersOf(GameAt(mem, sid)) :
          p.left_hand \in 0..4 /\ p.right_hand \in 0..4
    /\ \A sid \in Stored(mem) : \A p \in PlayersOf(GameAt(mem, sid)) :
          \A q \in PlayersOf(GameAt(mem, sid)) : \A h \in HandArgs, t \in HandArgs :
             Hand(p, h) + Hand(q, t) <= 8 /\ Hand(p, h) + Hand(q, t) < 256

\* C17 witness: a legal make_move added a source hand of 4 to a targeted hand
\* of 4.
C17_Witness ==
    \E c \in Principals, h \in HandArgs, t \in HandArgs :
       /\ LegalMove(last.pre, c, 1, h)
       /\ WasMove(c, 1, h, t)
       /\ Hand(Unwrap(TurnPlayer(GameAt(last.pre, 1))), h) = 4
       /\ Hand(Unwrap(TurnOpponent(GameAt(last.pre, 1))), t) = 4

\* C18: in every InProgress Game each of the two players has a hand that is
\* not 0; so the player current_turn names has a move that is not turned away
\* for an empty source hand.
C18_InProgressHasMove ==
    \A sid \in Stored(mem) :
       GameAt(mem, sid).state.tag = "InProgress"
       => /\ IsSome(GameAt(mem, sid).player2)
          /\ \A p \in PlayersOf(GameAt(mem, sid)) :
                p.left_hand # 0 \/ p.right_hand # 0
          /\ \E h \in HandArgs, t \in HandArgs :
                LET g == GameAt(mem, sid)
                    c == Unwrap(TurnPlayer(g)).id
                IN  /\ LegalMove(mem, c, sid, h)
                    /\ MakeMoveBody(mem, c, sid, h, t).local # mem

\* C18 witness: a legal make_move left an opponent who had an empty hand with
\* one hand that is not 0, and the Game is InProgress.
C18_Witness ==
    /\ 1 \in Stored(mem)
    /\ GameAt(mem, 1).state.tag = "InProgress"
    /\ \E c \in Principals, h \in HandArgs, t \in HandArgs :
          LegalMove(last.pre, c, 1, h) /\ WasMove(c, 1, h, t)
    /\ \E p \in PlayersOf(GameAt(mem, 1)) : p.left_hand = 0 \/ p.right_hand = 0

\* the hand a u8 argument does not name
OtherHand(p, h) == IF h = 0 THEN p.right_hand ELSE p.left_hand

\* C19: a legal move changes at most the opponent hand target_hand names, state
\* and current_turn: the mover's hands, the opponent's other hand, both
\* identities and session_id are as before.
C19_MoveTouchesOneHand ==
    (last.op = "make_move" /\ mem # last.pre) =>
    \A c \in Principals, sid \in SessionIds, h \in HandArgs, t \in HandArgs :
       (/\ LegalMove(last.pre, c, sid, h)
        /\ WasMove(c, sid, h, t))
       => LET g == GameAt(last.pre, sid)
              g2 == GameAt(mem, sid)
              mover == g.current_turn
              opp == Unwrap(SeatPlayer(g, OtherSeat(mover)))
              opp2 == Unwrap(SeatPlayer(g2, OtherSeat(mover)))
          IN  /\ g2.session_id = g.session_id
              /\ SeatPlayer(g2, mover) = SeatPlayer(g, mover)
              /\ opp2.id = opp.id
              /\ opp2.game = opp.game
              /\ OtherHand(opp2, t) = OtherHand(opp, t)
              /\ Touched \subseteq {sid}

\* C19 witness: a legal make_move changed the hand it targeted.
C19_Witness ==
    \E c \in Principals, h \in HandArgs, t \in HandArgs :
       /\ LegalMove(last.pre, c, 1, h)
       /\ WasMove(c, 1, h, t)
       /\ Hand(Unwrap(TurnOpponent(GameAt(last.pre, 1))), t)
             # Hand(Unwrap(SeatPlayer(GameAt(mem, 1),
                              OtherSeat(GameAt(last.pre, 1).current_turn))), t)

\* both seats of g are held by the identity c
SelfJoined(g, c) ==
    g.player1.id = c /\ IsSome(g.player2) /\ Unwrap(g.player2).id = c

\* C20: a join by the creator takes effect like any other; from then on, while
\* the Game is InProgress, every make_move by that identity from a hand that is
\* not 0 is applied for the seat current_turn names, and if the Game goes on the
\* next turn is that identity's again.
C20_CreatorPlaysBothSeats ==
    /\ last.op = "join_game" =>
          \A c \in Principals, sid \in Stored(last.pre) :
             (/\ GameAt(last.pre, sid).state.tag = "WaitingForPlayer"
              /\ GameAt(last.pre, sid).player2 = None
              /\ GameAt(last.pre, sid).player1.id = c
              /\ WasJoin(c, sid))
             => /\ SelfJoined(GameAt(mem, sid), c)
                /\ GameAt(mem, sid).state.tag = "InProgress"
    /\ last.op = "make_move" =>
          \A c \in Principals, sid \in Stored(last.pre), h \in HandArgs, t \in HandArgs :
             (/\ GameAt(last.pre, sid).state.tag = "InProgress"
              /\ SelfJoined(GameAt(last.pre, sid), c)
              /\ Hand(Unwrap(TurnPlayer(GameAt(last.pre, sid))), h) # 0
              /\ WasMove(c, sid, h, t))
             => LET g == GameAt(last.pre, sid)
                    g2 == GameAt(mem, sid)
                    v == Hand(Unwrap(TurnOpponent(g)), t)
                    a == Hand(Unwrap(TurnPlayer(g)), h)
                    w == Hand(Unwrap(SeatPlayer(g2, OtherSeat(g.current_turn))), t)
                IN  /\ g2 # g
                    /\ w = IF v + a >= 5 THEN 0 ELSE v + a
                    /\ SeatPlayer(g2, g.current_turn) = SeatPlayer(g, g.current_turn)
                    /\ SelfJoined(g2, c)
                    /\ \/ g2.state.tag = "Finished" /\ g2.current_turn = g.current_turn
                       \/ /\ g2.state.tag = "InProgress"
                          /\ g2.current_turn = OtherSeat(g.current_turn)
                          /\ IsTurnOf(g2, c)

\* C20 witness: in a Game whose creator joined it, a make_move by that identity
\* was applied and the next turn is that identity's too.
C20_Witness ==
    /\ 1 \in Stored(last.pre)
    /\ GameAt(last.pre, 1).state.tag = "InProgress"
    /\ \E c \in Principals, h \in HandArgs, t \in HandArgs :
          /\ SelfJoined(GameAt(last.pre, 1), c)
          /\ LegalMove(last.pre, c, 1, h)
          /\ WasMove(c, 1, h, t)
          /\ IsTurnOf(GameAt(mem, 1), c)
    /\ mem # last.pre
    /\ GameAt(mem, 1).state.tag = "InProgress"
    /\ GameAt(mem, 1).current_turn # GameAt(last.pre, 1).current_turn
====
